---- MODULE Spec2Model ----
(***************************************************************************)
(* A model of the XKCD comic service (src/src/services/xkcdService.js),    *)
(* its HTTP routes (src/src/routes/comics.js) and the error handler        *)
(* (src/src/middleware/errorHandler.js).                                   *)
(*                                                                         *)
(* Every client is a chain of async calls.  A step of the model is one     *)
(* run-to-completion chunk of JavaScript: from the resumption of an await  *)
(* to the next await.  loc[p].pc names the await (or the entry of the      *)
(* callee) client p is suspended at.                                       *)
(*                                                                         *)
(* Strings are sequences of one-character strings; an error message is a   *)
(* sequence of text fragments (the template literals' parts), so that ===  *)
(* is sequence equality and String.includes is fragment membership.        *)
(***************************************************************************)
EXTENDS Integers, Sequences, FiniteSets, TLC

VARIABLES
    cache,               \* this.cache: key -> [data, timestamp, gen]
    nextCachedPenalty,   \* this._nextCachedPenalty
    now,                 \* Date.now(), in ms
    upstream,            \* the archive at xkcd.com: [num, comics, missing, flaky]
    loc,                 \* per client: the position and locals of its call chain
    budget,              \* what is left of the model's bounds: [ticks, edits, calls, searches]
    stats                \* app.js stats: [totalRequests, endpointStats, startTime]

vars == <<cache, nextCachedPenalty, now, upstream, loc, budget, stats>>

-----------------------------------------------------------------------------
(* Bounds of the model *)

MaxNum == 2      \* upstream holds comics 1..MaxNum, the latest being MaxNum
MaxCalls == 3    \* top-level calls the clients make
MaxTicks == 1    \* times the clock advances
MaxEdits == 1    \* times upstream republishes a comic with a changed title
MaxSearches == 1 \* search calls the client of SpecSearch makes
MaxLen == 3      \* characters of the :id parameter of a request
MaxRequests == 2 \* requests the client of SpecHttp sends

Procs == {"c1", "c2"}

-----------------------------------------------------------------------------
(* Program constants *)

cacheTimeout == 5 * 60 * 1000
PenaltyDelayMs == 5
ColdDelayMs == 20
MaxAttempts == 5
Window == 30
MinQueryLength == 1
MaxQueryLength == 100
DefaultPage == 1
DefaultLimit == 10
MaxLimit == 50

\* The clock advances by the cold-path delay, by a TTL less that delay or by
\* a TTL, so that now - timestamp takes values below, just below, at and
\* above cacheTimeout.
TickSteps == {ColdDelayMs, cacheTimeout - ColdDelayMs, cacheTimeout}

-----------------------------------------------------------------------------
(* JavaScript values passed as arguments.  A number is kept as twice its    *)
(* value, which represents the integers and the halves (1.5 is twice = 3).  *)

JNum(n) == [t |-> "number", twice |-> 2 * n]
JHalf(k) == [t |-> "number", twice |-> k]
JNaN == [t |-> "nan", twice |-> 0]
JString == [t |-> "string", twice |-> 0]
JUndefined == [t |-> "undefined", twice |-> 0]

\* Number.isInteger(v)
isInteger(v) == v.t = "number" /\ v.twice % 2 = 0

\* v <= 0 for a number v (NaN compares false)
lessOrEqualZero(v) == v.t = "number" /\ v.twice <= 0

\* v > 0
greaterThanZero(v) == v.t = "number" /\ v.twice > 0

intOf(v) == v.twice \div 2

-----------------------------------------------------------------------------
(* Strings: sequences of one-character strings *)

Rep(c, n) == [k \in 1..n |-> c]

\* the characters String.prototype.trim removes (those the model's inputs use)
WhiteSpace == {" ", "\t", "\n"}

UpperCase == <<"A", "B", "C", "D", "E", "F", "G", "H", "I", "J", "K", "L", "M",
               "N", "O", "P", "Q", "R", "S", "T", "U", "V", "W", "X", "Y", "Z">>
LowerCase == <<"a", "b", "c", "d", "e", "f", "g", "h", "i", "j", "k", "l", "m",
               "n", "o", "p", "q", "r", "s", "t", "u", "v", "w", "x", "y", "z">>

\* s.trim()
trim(s) ==
    LET keep == {k \in 1..Len(s) : s[k] \notin WhiteSpace}
    IN IF keep = {} THEN <<>>
       ELSE SubSeq(s, CHOOSE a \in keep : \A k \in keep : a <= k,
                      CHOOSE b \in keep : \A k \in keep : b >= k)

lowerChar(c) ==
    IF \E k \in 1..26 : UpperCase[k] = c
    THEN LowerCase[CHOOSE k \in 1..26 : UpperCase[k] = c]
    ELSE c

\* s.toLowerCase()
toLowerCase(s) == [k \in 1..Len(s) |-> lowerChar(s[k])]

\* hay.includes(q)
includes(hay, q) ==
    \E k \in 0..(Len(hay) - Len(q)) : SubSeq(hay, k + 1, k + Len(q)) = q

\* s.slice(a, b) of an array, for 0 <= a <= b
slice(s, a, b) == SubSeq(s, a + 1, IF b < Len(s) THEN b ELSE Len(s))

\* a query argument: a string, or a value that is not a string
QString(s) == [t |-> "string", s |-> s]
QUndefined == [t |-> "undefined", s |-> <<>>]

-----------------------------------------------------------------------------
(* Comics, results and error messages *)

NoComic == [id |-> 0, title |-> <<>>, transcript |-> <<>>]

Ok(c) == [ok |-> TRUE, val |-> c, msg |-> <<>>]
Err(m) == [ok |-> FALSE, val |-> NoComic, msg |-> m]
NoResult == Err(<<>>)

MsgNotFound == <<"Comic not found">>
MsgInvalidId == <<"Invalid comic ID">>
MsgInvalidQuery == <<"Invalid search query">>
PrefixLatest == "Failed to fetch latest comic: "
PrefixById == "Failed to fetch comic by ID: "
PrefixRandom == "Failed to fetch random comic: "

\* new Error(`${prefix}${error.message}`)
Wrap(prefix, m) == <<prefix>> \o m

\* `HTTP ${response.status}: ${response.statusText}`
StatusText(s) ==
    CASE s = "404" -> "Not Found"
      [] s = "500" -> "Internal Server Error"
      [] OTHER -> "Service Unavailable"
HttpMessage(s) == <<"HTTP ", s, ": ", StatusText(s)>>

\* the message node-fetch rejects with
MsgNetwork == <<"request failed, reason: ECONNRESET">>
\* the message response.json() rejects with
MsgBadJson == <<"invalid json response body">>

\* processComic(comic)
NoTranscript == <<"undefined">>
processComic(raw) ==
    [id |-> raw.num,
     title |-> raw.title,
     transcript |-> IF raw.transcript = NoTranscript \/ raw.transcript = <<>>
                    THEN <<>> ELSE raw.transcript]

-----------------------------------------------------------------------------
(* The cache *)

LatestKey == <<"latest", 0>>
ComicKey(id) == <<"comic-", id>>

\* Fresh with the TTL taken for seconds where the clock counts milliseconds
FreshInSeconds(entry, t) == t - entry.timestamp < cacheTimeout \div 1000

\* Fresh with <= for <: an entry is still served when exactly a TTL old
FreshInclusive(entry, t) == t - entry.timestamp <= cacheTimeout

\* Date.now() - cached.timestamp < this.cacheTimeout
Fresh(entry, t) == t - entry.timestamp < cacheTimeout

\* cached && Date.now() - cached.timestamp < this.cacheTimeout
cacheHit(k) == k \in DOMAIN cache /\ Fresh(cache[k], now)

\* this.cache.set(key, { data, timestamp: Date.now() })
\* gen is not a field of the program's entry: it counts the times the key was
\* set, so that the claims can tell an entry from the one that replaced it.
cacheSet(k, data) ==
    [x \in DOMAIN cache \cup {k} |->
        IF x = k
        THEN [data |-> data, timestamp |-> now,
              gen |-> IF k \in DOMAIN cache THEN cache[k].gen + 1 ELSE 1]
        ELSE cache[x]]

-----------------------------------------------------------------------------
(* Upstream *)

\* what upstream answers a request for comic id with, transient failures aside
UpstreamHas(id) == id \in 1..upstream.num /\ id \notin upstream.missing

Titles == {<<"a">>, <<"b">>}

RawComic(id, title) == [num |-> id, title |-> title, transcript |-> NoTranscript]

\* the archive search scans: every third comic is about Python, every second
\* has a transcript
SearchTitle(id) ==
    IF id % 3 = 0 THEN <<"P", "y", "t">> ELSE IF id % 3 = 1 THEN <<"C", "a", "t">>
    ELSE <<"a", "p", "y">>
SearchComic(id) ==
    [num |-> id, title |-> SearchTitle(id),
     transcript |-> IF id % 2 = 0 THEN <<"C", "o", "d", "e">> ELSE NoTranscript]

\* The requests that may fail for no reason of the archive's content are
\* those of upstream.flaky: a comic id, or LatestUrl for /info.0.json.
LatestUrl == 0
Failures(x) == IF x \in upstream.flaky THEN {"reject", "500"} ELSE {}

\* The outcomes of fetch(): the promise rejects ("reject"), or resolves with
\* a response of some status.  Upstream answers 404 for a comic it does not
\* hold, and may fail a flaky request with a 500 or a broken connection.
LatestOutcomes == Failures(LatestUrl) \cup {"200"}

ByIdOutcomes(id) == Failures(id) \cup (IF UpstreamHas(id) THEN {"200"} ELSE {"404"})

\* The outcomes of response.json(): the body upstream holds now, or, of a
\* flaky request, a malformed body (good = FALSE).
Bodies(x, id) ==
    {[good |-> TRUE, raw |-> upstream.comics[id]]}
    \cup (IF x \in upstream.flaky THEN {[good |-> FALSE, raw |-> RawComic(0, <<>>)]} ELSE {})
\* the comics upstream does not hold (as xkcd.com holds no comic 404)
UpstreamMissing == {1}

-----------------------------------------------------------------------------
(* Clients *)

NoPrev == [id |-> 0, val |-> NoComic, gen |-> 0, at |-> 0]

\* pc, arg, cached, timer, latest and i are the program's: the await a client
\* is at, and the locals id, cached, the pending timer's deadline, latest and i.
\* The other fields record what happened, for the claims: op is the top-level
\* call, ret the last settled result, log the statuses upstream answered
\* this call's getById requests with, saw the timestamp of the stale entry
\* the last lookup found (-1: none), prev the client's previous successful
\* getById and again whether the finished call repeated it.
\* For search: query, page and limit are the arguments, id the loop variable
\* and results the matches so far (the program's), asked the ids getById was
\* called with, got what each call settled with and sres the SearchResult
\* returned (records of what happened).
\* the route has not called getById
NotCalled == JUndefined

NoSearchResult ==
    [query |-> <<>>, results |-> <<>>, total |-> 0,
     pagination |-> [page |-> 0, limit |-> 0, pages |-> 0, offset |-> 0]]

\* let stats = { totalRequests: 0, endpointStats: {}, startTime: Date.now() }
NoStats == [totalRequests |-> 0, endpointStats |-> <<>>, startTime |-> 0]

\* no body of GET /api/stats in the response
NoBody == [totalRequests |-> -1, endpointStats |-> <<>>, uptime |-> 0]

IdleLoc ==
    [pc |-> "idle", op |-> "none", arg |-> JUndefined, ret |-> NoResult,
     cached |-> NoComic, timer |-> 0, latest |-> NoComic, i |-> 0,
     log |-> <<>>, saw |-> -1, prev |-> NoPrev, again |-> FALSE,
     query |-> QUndefined, page |-> JUndefined, limit |-> JUndefined,
     id |-> 0, results |-> <<>>, asked |-> <<>>, got |-> <<>>,
     sres |-> NoSearchResult,
     param |-> <<>>, passed |-> NotCalled, status |-> 0, error |-> <<>>,
     message |-> <<>>, qpage |-> QUndefined, qlimit |-> QUndefined,
     body |-> NoBody]

\* record r with the fields of f overriding
Set(r, f) == [k \in DOMAIN r |-> IF k \in DOMAIN f THEN f[k] ELSE r[k]]

\* where the caller goes on when the callee's promise settles
Continuation(o, callee) ==
    CASE o = "getRandom" /\ callee = "getLatest" -> "R_latest"
      [] o = "getRandom" /\ callee = "getById" -> "R_byId"
      [] o = "search" /\ callee = "getLatest" -> "S_latest"
      [] o = "search" /\ callee = "getById" -> "S_byId"
      [] o = "GET /:id" /\ callee = "getById" -> "H_byId"
      [] o = "GET /latest" /\ callee = "getLatest" -> "H_latest"
      [] o = "GET /random" /\ callee = "getLatest" -> "R_latest"
      [] o = "GET /random" /\ callee = "getById" -> "R_byId"
      [] o = "GET /random" /\ callee = "getRandom" -> "H_random"
      [] o = "GET /search" /\ callee = "getLatest" -> "S_latest"
      [] o = "GET /search" /\ callee = "getById" -> "S_byId"
      [] o = "GET /search" /\ callee = "search" -> "H_search"
      [] OTHER -> "idle"

\* The locals of a call that has returned are gone.  What the model keeps of
\* a finished top-level call is its arguments, its result, the latest comic
\* it obtained, the ids it asked getById for with what it got, the statuses
\* upstream answered with, and, of a successful getById, the comic with the
\* generation and the timestamp of the cache entry it left (c is the cache as
\* the call leaves it).
Finished(l, r, c) ==
    Set(IdleLoc,
        [op |-> l.op, ret |-> r, log |-> l.log, asked |-> l.asked, got |-> l.got,
         latest |-> l.latest, query |-> l.query, page |-> l.page, limit |-> l.limit,
         sres |-> l.sres,
         prev |-> IF l.op = "getById" /\ r.ok
                  THEN [id |-> intOf(l.arg), val |-> r.val,
                        gen |-> c[ComicKey(intOf(l.arg))].gen,
                        at |-> c[ComicKey(intOf(l.arg))].timestamp]
                  ELSE NoPrev,
         again |-> l.op = "getById" /\ r.ok /\ l.prev.id = intOf(l.arg)])

\* the callee's promise settles with result r
Settle(l, callee, r, c) ==
    IF Continuation(l.op, callee) = "idle"
    THEN Finished(l, r, c)
    ELSE Set(l, [pc |-> Continuation(l.op, callee), ret |-> r,
                 cached |-> NoComic, timer |-> 0, saw |-> -1])

-----------------------------------------------------------------------------
(* The environment: the clock, upstream, and the clients' calls *)

Init ==
    /\ cache = <<>>
    /\ stats = NoStats
    /\ nextCachedPenalty = FALSE
    /\ now = 0
    /\ upstream = [num |-> MaxNum,
                   comics |-> [id \in 1..MaxNum |-> RawComic(id, <<"a">>)],
                   missing |-> UpstreamMissing,
                   flaky |-> 0..MaxNum]
    /\ loc = [p \in Procs |-> IdleLoc]
    /\ budget = [ticks |-> MaxTicks, edits |-> MaxEdits, calls |-> MaxCalls, searches |-> 0]

Tick ==
    /\ budget.ticks > 0
    /\ \E d \in TickSteps : now' = now + d
    /\ budget' = [budget EXCEPT !.ticks = @ - 1]
    /\ UNCHANGED <<cache, nextCachedPenalty, upstream, loc, stats>>

\* upstream republishes a comic with another title
Edit ==
    /\ budget.edits > 0
    /\ \E id \in 1..upstream.num : \E t \in Titles \ {upstream.comics[id].title} :
         /\ UpstreamHas(id)
         /\ upstream' = [upstream EXCEPT !.comics[id].title = t]
    /\ budget' = [budget EXCEPT !.edits = @ - 1]
    /\ UNCHANGED <<cache, nextCachedPenalty, now, loc, stats>>

ArgIds == {JNum(-1), JNum(0), JHalf(3), JString} \cup {JNum(n) : n \in 1..MaxNum}

Begin(p, o, a, at) ==
    /\ loc[p].pc = "idle"
    /\ budget.calls > 0
    /\ budget' = [budget EXCEPT !.calls = @ - 1]
    /\ loc' = [loc EXCEPT ![p] =
                 Set(IdleLoc, [pc |-> at, op |-> o, arg |-> a,
                               prev |-> IF o = "getById" /\ a = JNum(@.prev.id)
                                        THEN @.prev ELSE NoPrev])]
    /\ UNCHANGED <<cache, nextCachedPenalty, now, upstream, stats>>

CallGetLatest(p) == Begin(p, "getLatest", JUndefined, "L_enter")
CallGetById(p) == \E a \in ArgIds : Begin(p, "getById", a, "B_enter")
CallGetRandom(p) == Begin(p, "getRandom", JUndefined, "L_enter")

-----------------------------------------------------------------------------
(* getLatest *)

\* getLatest as it would be were the penalty not consumed by the hit
getLatest_penaltyKept(p) ==
    /\ loc[p].pc = "L_enter"
    /\ loc' = [loc EXCEPT ![p] =
         IF cacheHit(LatestKey)
         THEN (IF nextCachedPenalty
               THEN Set(@, [pc |-> "L_penalty", timer |-> now + PenaltyDelayMs,
                            cached |-> cache[LatestKey].data])
               ELSE Settle(@, "getLatest", Ok(cache[LatestKey].data), cache))
         ELSE Set(@, [pc |-> "L_fetch",
                      saw |-> IF LatestKey \in DOMAIN cache
                              THEN cache[LatestKey].timestamp ELSE -1])]
    /\ UNCHANGED <<cache, nextCachedPenalty, now, upstream, budget, stats>>

\* the synchronous head of getLatest: the cache lookup
getLatest(p) ==
    /\ loc[p].pc = "L_enter"
    /\ IF cacheHit(LatestKey)
       THEN IF nextCachedPenalty
            THEN /\ nextCachedPenalty' = FALSE
                 /\ loc' = [loc EXCEPT ![p] =
                              Set(@, [pc |-> "L_penalty", timer |-> now + PenaltyDelayMs,
                                      cached |-> cache[LatestKey].data])]
            ELSE /\ UNCHANGED nextCachedPenalty
                 /\ loc' = [loc EXCEPT ![p] =
                              Settle(@, "getLatest", Ok(cache[LatestKey].data), cache)]
       ELSE /\ UNCHANGED nextCachedPenalty
            /\ loc' = [loc EXCEPT ![p] =
                         Set(@, [pc |-> "L_fetch",
                                 saw |-> IF LatestKey \in DOMAIN cache
                                         THEN cache[LatestKey].timestamp ELSE -1])]
    /\ UNCHANGED <<cache, now, upstream, budget, stats>>

\* the 5 ms timer of the penalised cached path fires
getLatest_penaltyDone(p) ==
    /\ loc[p].pc = "L_penalty"
    /\ now >= loc[p].timer
    /\ loc' = [loc EXCEPT ![p] = Settle(@, "getLatest", Ok(@.cached), cache)]
    /\ UNCHANGED <<cache, nextCachedPenalty, now, upstream, budget, stats>>

\* the catch block of getLatest as it would be were the error rethrown as it is
latestCatchBare(m) == Err(m)

\* the catch block of getLatest
latestCatch(m) == Err(Wrap(PrefixLatest, m))

\* getLatest as it would be were the entry dropped when the refresh fails
getLatest_fetchedEvicting(p) ==
    /\ loc[p].pc = "L_fetch"
    /\ \E r \in LatestOutcomes :
         /\ loc' = [loc EXCEPT ![p] =
              IF r = "reject" THEN Settle(@, "getLatest", latestCatch(MsgNetwork), cache)
              ELSE IF r # "200" THEN Settle(@, "getLatest", latestCatch(HttpMessage(r)), cache)
              ELSE Set(@, [pc |-> "L_json"])]
         /\ cache' = IF r = "200" THEN cache
                     ELSE [k \in DOMAIN cache \ {LatestKey} |-> cache[k]]
    /\ UNCHANGED <<nextCachedPenalty, now, upstream, budget, stats>>

\* fetch(`${baseUrl}/info.0.json`) settles
getLatest_fetched(p) ==
    /\ loc[p].pc = "L_fetch"
    /\ \E r \in LatestOutcomes :
         loc' = [loc EXCEPT ![p] =
            IF r = "reject" THEN Settle(@, "getLatest", latestCatch(MsgNetwork), cache)
            ELSE IF r # "200" THEN Settle(@, "getLatest", latestCatch(HttpMessage(r)), cache)
            ELSE Set(@, [pc |-> "L_json"])]
    /\ UNCHANGED <<cache, nextCachedPenalty, now, upstream, budget, stats>>

\* response.json() settles: the comic is cached and the penalty armed
getLatest_parsed(p) ==
    /\ loc[p].pc = "L_json"
    /\ \E b \in Bodies(LatestUrl, upstream.num) :
         IF b.good
         THEN /\ cache' = cacheSet(LatestKey, processComic(b.raw))
              /\ nextCachedPenalty' = TRUE
              /\ loc' = [loc EXCEPT ![p] =
                           Set(@, [pc |-> "L_cold", timer |-> now + ColdDelayMs,
                                   cached |-> processComic(b.raw)])]
         ELSE /\ loc' = [loc EXCEPT ![p] = Settle(@, "getLatest", latestCatch(MsgBadJson), cache)]
              /\ UNCHANGED <<cache, nextCachedPenalty>>
    /\ UNCHANGED <<now, upstream, budget, stats>>

\* the 20 ms timer of the cold path fires
getLatest_coldDone(p) ==
    /\ loc[p].pc = "L_cold"
    /\ now >= loc[p].timer
    /\ loc' = [loc EXCEPT ![p] = Settle(@, "getLatest", Ok(@.cached), cache)]
    /\ UNCHANGED <<cache, nextCachedPenalty, now, upstream, budget, stats>>

-----------------------------------------------------------------------------
(* getById *)

\* invalidId with < for <=: 0 passes
invalidIdBelowZero(v) == ~isInteger(v) \/ (v.t = "number" /\ v.twice < 0)

\* !Number.isInteger(id) || id <= 0
invalidId(v) == ~isInteger(v) \/ lessOrEqualZero(v)

\* getById as it would be were the penalty consumed by its cache hit too
getById_penalised(p) ==
    /\ loc[p].pc = "B_enter"
    /\ loc' = [loc EXCEPT ![p] =
         IF invalidId(@.arg)
         THEN Settle(@, "getById", Err(MsgInvalidId), cache)
         ELSE IF cacheHit(ComicKey(intOf(@.arg)))
         THEN Settle(@, "getById", Ok(cache[ComicKey(intOf(@.arg))].data), cache)
         ELSE Set(@, [pc |-> "B_fetch",
                     saw |-> IF ComicKey(intOf(@.arg)) \in DOMAIN cache
                             THEN cache[ComicKey(intOf(@.arg))].timestamp ELSE -1])]
    /\ nextCachedPenalty' = (nextCachedPenalty /\ (invalidId(loc[p].arg)
                                                   \/ ~cacheHit(ComicKey(intOf(loc[p].arg)))))
    /\ UNCHANGED <<cache, now, upstream, budget, stats>>

\* getById with a single-flight table: a lookup that misses while another
\* client's fetch of the same comic is in flight joins that fetch ("B_join")
\* instead of issuing its own
getById_singleFlight(p) ==
    /\ loc[p].pc = "B_enter"
    /\ loc' = [loc EXCEPT ![p] =
         IF invalidId(@.arg)
         THEN Settle(@, "getById", Err(MsgInvalidId), cache)
         ELSE IF cacheHit(ComicKey(intOf(@.arg)))
         THEN Settle(@, "getById", Ok(cache[ComicKey(intOf(@.arg))].data), cache)
         ELSE IF \E q \in Procs \ {p} :
                    loc[q].pc \in {"B_fetch", "B_json"} /\ loc[q].arg = @.arg
         THEN Set(@, [pc |-> "B_join"])
         ELSE Set(@, [pc |-> "B_fetch"])]
    /\ UNCHANGED <<cache, nextCachedPenalty, now, upstream, budget, stats>>

\* the synchronous head of getById: the validation and the cache lookup
getById(p) ==
    /\ loc[p].pc = "B_enter"
    /\ loc' = [loc EXCEPT ![p] =
         IF invalidId(@.arg)
         THEN Settle(@, "getById", Err(MsgInvalidId), cache)
         ELSE IF cacheHit(ComicKey(intOf(@.arg)))
         THEN Settle(@, "getById", Ok(cache[ComicKey(intOf(@.arg))].data), cache)
         ELSE Set(@, [pc |-> "B_fetch",
                     saw |-> IF ComicKey(intOf(@.arg)) \in DOMAIN cache
                             THEN cache[ComicKey(intOf(@.arg))].timestamp ELSE -1])]
    /\ UNCHANGED <<cache, nextCachedPenalty, now, upstream, budget, stats>>

\* the error the try block of getById throws for a response that is not ok
byIdThrown(status) == IF status = "404" THEN MsgNotFound ELSE HttpMessage(status)

\* the catch block of getById
byIdCatch(m) == Err(Wrap(PrefixById, m))

\* getById as it would be were a 404 remembered in the cache
getById_fetchedNegative(p) ==
    /\ loc[p].pc = "B_fetch"
    /\ \E r \in ByIdOutcomes(intOf(loc[p].arg)) :
         /\ loc' = [loc EXCEPT ![p] =
              IF r = "reject"
              THEN Settle(Set(@, [log |-> Append(@.log, r)]), "getById", byIdCatch(MsgNetwork), cache)
              ELSE IF r # "200"
              THEN Settle(Set(@, [log |-> Append(@.log, r)]), "getById", byIdCatch(byIdThrown(r)), cache)
              ELSE Set(@, [pc |-> "B_json", log |-> Append(@.log, r)])]
         /\ cache' = IF r = "404" THEN cacheSet(ComicKey(intOf(loc[p].arg)), NoComic) ELSE cache
    /\ UNCHANGED <<nextCachedPenalty, now, upstream, budget, stats>>

\* fetch(`${baseUrl}/${id}/info.0.json`) settles
getById_fetched(p) ==
    /\ loc[p].pc = "B_fetch"
    /\ \E r \in ByIdOutcomes(intOf(loc[p].arg)) :
         loc' = [loc EXCEPT ![p] =
            IF r = "reject"
            THEN Settle(Set(@, [log |-> Append(@.log, r)]), "getById", byIdCatch(MsgNetwork), cache)
            ELSE IF r # "200"
            THEN Settle(Set(@, [log |-> Append(@.log, r)]), "getById", byIdCatch(byIdThrown(r)), cache)
            ELSE Set(@, [pc |-> "B_json", log |-> Append(@.log, r)])]
    /\ UNCHANGED <<cache, nextCachedPenalty, now, upstream, budget, stats>>

\* response.json() settles: the comic is cached
getById_parsed(p) ==
    /\ loc[p].pc = "B_json"
    /\ \E b \in Bodies(intOf(loc[p].arg), intOf(loc[p].arg)) :
         IF b.good
         THEN /\ cache' = cacheSet(ComicKey(intOf(loc[p].arg)), processComic(b.raw))
              /\ loc' = [loc EXCEPT ![p] = Settle(@, "getById", Ok(processComic(b.raw)), cache')]
         ELSE /\ loc' = [loc EXCEPT ![p] = Settle(@, "getById", byIdCatch(MsgBadJson), cache)]
              /\ UNCHANGED cache
    /\ UNCHANGED <<nextCachedPenalty, now, upstream, budget, stats>>

-----------------------------------------------------------------------------
(* getRandom *)

\* the draw as it would be were it Math.floor(Math.random() * (maxId + 1)) + 1
RandomIdsBeyond(maxId) == 1..(maxId + 1)

\* Math.floor(Math.random() * maxId) + 1
RandomIds(maxId) == 1..maxId

\* the catch block of getRandom
randomCatch(m) == Err(Wrap(PrefixRandom, m))

\* e.message === 'Comic not found'
isNotFound(m) == m = MsgNotFound

\* getLatest has settled: the first draw
getRandom_afterLatest(p) ==
    /\ loc[p].pc = "R_latest"
    /\ IF loc[p].ret.ok
       THEN \E r \in RandomIds(loc[p].ret.val.id) :
              loc' = [loc EXCEPT ![p] =
                        Set(@, [pc |-> "B_enter", latest |-> @.ret.val, i |-> 0,
                                arg |-> JNum(r), ret |-> NoResult,
                                asked |-> Append(@.asked, r)])]
       ELSE loc' = [loc EXCEPT ![p] = Settle(@, "getRandom", randomCatch(@.ret.msg), cache)]
    /\ UNCHANGED <<cache, nextCachedPenalty, now, upstream, budget, stats>>

\* getRandom as it would be were every failure of getById retried
getRandom_afterByIdRetryAll(p) ==
    /\ loc[p].pc = "R_byId"
    /\ IF loc[p].ret.ok
       THEN loc' = [loc EXCEPT ![p] = Settle(@, "getRandom", @.ret, cache)]
       ELSE IF loc[p].i + 1 < MaxAttempts
       THEN \E r \in RandomIds(loc[p].latest.id) :
              loc' = [loc EXCEPT ![p] =
                        Set(@, [pc |-> "B_enter", i |-> @.i + 1, arg |-> JNum(r),
                                ret |-> NoResult, asked |-> Append(@.asked, r)])]
       ELSE loc' = [loc EXCEPT ![p] = Settle(@, "getRandom", Ok(@.latest), cache)]
    /\ UNCHANGED <<cache, nextCachedPenalty, now, upstream, budget, stats>>

\* getById has settled: return, retry, fall back or fail
getRandom_afterById(p) ==
    /\ loc[p].pc = "R_byId"
    /\ IF loc[p].ret.ok
       THEN loc' = [loc EXCEPT ![p] = Settle(@, "getRandom", @.ret, cache)]
       ELSE IF isNotFound(loc[p].ret.msg)
       THEN IF loc[p].i + 1 < MaxAttempts
            THEN \E r \in RandomIds(loc[p].latest.id) :
                   loc' = [loc EXCEPT ![p] =
                             Set(@, [pc |-> "B_enter", i |-> @.i + 1, arg |-> JNum(r),
                                     ret |-> NoResult, asked |-> Append(@.asked, r)])]
            ELSE loc' = [loc EXCEPT ![p] = Settle(@, "getRandom", Ok(@.latest), cache)]
       ELSE loc' = [loc EXCEPT ![p] = Settle(@, "getRandom", randomCatch(@.ret.msg), cache)]
    /\ UNCHANGED <<cache, nextCachedPenalty, now, upstream, budget, stats>>

-----------------------------------------------------------------------------
(* search *)

\* page = 1, limit = 10 in the parameter list: the default replaces undefined
withDefault(v, d) == IF v.t = "undefined" THEN JNum(d) ELSE v

\* the validation as it would be were the length that of the query as given
invalidQueryUntrimmed(q) ==
    \/ q.t # "string"
    \/ Len(q.s) < MinQueryLength
    \/ Len(q.s) > MaxQueryLength

\* typeof query !== 'string' || query.trim().length < 1 || query.trim().length > 100
invalidQuery(q) ==
    \/ q.t # "string"
    \/ Len(trim(q.s)) < MinQueryLength
    \/ Len(trim(q.s)) > MaxQueryLength

\* `${c.title} ${c.transcript || ''}`.toLowerCase().includes(q)
matches(c, q) == includes(toLowerCase(c.title \o <<" ">> \o c.transcript), q)

\* the window as it would be were it one id shorter
scanStartShort(maxId) == IF maxId - Window + 1 > 1 THEN maxId - Window + 1 ELSE 1

\* Math.max(1, maxId - 30)
scanStart(maxId) == IF maxId - Window > 1 THEN maxId - Window ELSE 1

\* Math.ceil(a / b) for a >= 0, b > 0
ceilDiv(a, b) == (a + b - 1) \div b

\* Number.isInteger(page) && page > 0 ? page : 1
safePageOf(page) ==
    IF isInteger(page) /\ greaterThanZero(page) THEN intOf(page) ELSE DefaultPage

\* the limit as it would be without Math.min
safeLimitUncapped(limit) ==
    IF isInteger(limit) /\ greaterThanZero(limit) THEN intOf(limit) ELSE DefaultLimit

\* Number.isInteger(limit) && limit > 0 ? Math.min(limit, 50) : 10
safeLimitOf(limit) ==
    IF isInteger(limit) /\ greaterThanZero(limit)
    THEN (IF intOf(limit) < MaxLimit THEN intOf(limit) ELSE MaxLimit)
    ELSE DefaultLimit

\* Math.max(1, Math.ceil(results.length / safeLimit))
pagesOf(total, safeLimit) ==
    IF ceilDiv(total, safeLimit) > 1 THEN ceilDiv(total, safeLimit) ELSE 1

\* the tail of search: the pagination and the object returned
searchResult(query, results, page, limit) ==
    LET safePage == safePageOf(page)
        safeLimit == safeLimitOf(limit)
        offset == (safePage - 1) * safeLimit
    IN [query |-> trim(query.s),
        results |-> slice(results, offset, offset + safeLimit),
        total |-> Len(results),
        pagination |-> [page |-> safePage, limit |-> safeLimit,
                        pages |-> pagesOf(Len(results), safeLimit), offset |-> offset]]

\* the synchronous head of search: the validation, then getLatest
search(p) ==
    /\ loc[p].pc = "S_enter"
    /\ loc' = [loc EXCEPT ![p] =
         IF invalidQuery(@.query)
         THEN Settle(@, "search", Err(MsgInvalidQuery), cache)
         ELSE Set(@, [pc |-> "L_enter"])]
    /\ UNCHANGED <<cache, nextCachedPenalty, now, upstream, budget, stats>>

\* getLatest has settled: an error leaves search as it is; else the scan starts
search_afterLatest(p) ==
    /\ loc[p].pc = "S_latest"
    /\ loc' = [loc EXCEPT ![p] =
         IF ~@.ret.ok
         THEN Settle(@, "search", @.ret, cache)
         ELSE IF @.ret.val.id >= scanStart(@.ret.val.id)
         THEN Set(@, [pc |-> "B_enter", latest |-> @.ret.val, id |-> @.ret.val.id,
                      arg |-> JNum(@.ret.val.id), results |-> <<>>, ret |-> NoResult,
                      asked |-> <<@.ret.val.id>>])
         ELSE Settle(Set(@, [latest |-> @.ret.val,
                               sres |-> searchResult(@.query, <<>>,
                                                     withDefault(@.page, DefaultPage),
                                                     withDefault(@.limit, DefaultLimit))]),
                     "search", Ok(NoComic), cache)]
    /\ UNCHANGED <<cache, nextCachedPenalty, now, upstream, budget, stats>>

\* The body of the scan loop once getById has settled: a comic that matches
\* is pushed; an error is dropped, by `continue` when its message is 'Comic
\* not found' and by falling out of the catch block otherwise.
scanned(results, r, q) ==
    IF r.ok
    THEN (IF matches(r.val, q) THEN Append(results, r.val) ELSE results)
    ELSE (IF isNotFound(r.msg) THEN results ELSE results)

\* search as it would be were an error of getById thrown on
search_afterByIdRethrow(p) ==
    /\ loc[p].pc = "S_byId"
    /\ loc' = [loc EXCEPT ![p] =
         LET found == scanned(@.results, @.ret, toLowerCase(trim(@.query.s)))
         IN IF ~@.ret.ok
            THEN Settle(Set(@, [got |-> Append(@.got, @.ret)]), "search", @.ret, cache)
            ELSE IF @.id - 1 >= scanStart(@.latest.id)
            THEN Set(@, [pc |-> "B_enter", id |-> @.id - 1, arg |-> JNum(@.id - 1),
                         results |-> found, ret |-> NoResult,
                         asked |-> Append(@.asked, @.id - 1), got |-> Append(@.got, @.ret)])
            ELSE Settle(Set(@, [got |-> Append(@.got, @.ret),
                                sres |-> searchResult(@.query, found,
                                                      withDefault(@.page, DefaultPage),
                                                      withDefault(@.limit, DefaultLimit))]),
                        "search", Ok(NoComic), cache)]
    /\ UNCHANGED <<cache, nextCachedPenalty, now, upstream, budget, stats>>

\* getById has settled: the next id of the window, or the result
search_afterById(p) ==
    /\ loc[p].pc = "S_byId"
    /\ loc' = [loc EXCEPT ![p] =
         LET found == scanned(@.results, @.ret, toLowerCase(trim(@.query.s)))
         IN IF @.id - 1 >= scanStart(@.latest.id)
            THEN Set(@, [pc |-> "B_enter", id |-> @.id - 1, arg |-> JNum(@.id - 1),
                         results |-> found, ret |-> NoResult,
                         asked |-> Append(@.asked, @.id - 1), got |-> Append(@.got, @.ret)])
            ELSE Settle(Set(@, [got |-> Append(@.got, @.ret),
                                  sres |-> searchResult(@.query, found,
                                                        withDefault(@.page, DefaultPage),
                                                        withDefault(@.limit, DefaultLimit))]),
                        "search", Ok(NoComic), cache)]
    /\ UNCHANGED <<cache, nextCachedPenalty, now, upstream, budget, stats>>

-----------------------------------------------------------------------------
(* The service under concurrent clients *)

Next ==
    \/ Tick
    \/ Edit
    \/ \E p \in Procs : CallGetLatest(p)
    \/ \E p \in Procs : CallGetById(p)
    \/ \E p \in Procs : CallGetRandom(p)
    \/ \E p \in Procs : getLatest(p)
    \/ \E p \in Procs : getLatest_penaltyDone(p)
    \/ \E p \in Procs : getLatest_fetched(p)
    \/ \E p \in Procs : getLatest_parsed(p)
    \/ \E p \in Procs : getLatest_coldDone(p)
    \/ \E p \in Procs : getById(p)
    \/ \E p \in Procs : getById_fetched(p)
    \/ \E p \in Procs : getById_parsed(p)
    \/ \E p \in Procs : getRandom_afterLatest(p)
    \/ \E p \in Procs : getRandom_afterById(p)

Spec == Init /\ [][Next]_vars

-----------------------------------------------------------------------------
(* search, by one client, over an archive wider than the window it scans *)

SearchProcs == {"c1"}

\* the latest comic's number: below the window, and the two values around
\* the one where maxId - 30 passes 1
SearchNums == {3, Window + 1, Window + 2}

SearchQueries ==
    {QUndefined, QString(<<>>), QString(Rep(" ", 3)), QString(Rep(" ", MaxQueryLength + 1)),
     QString(Rep("a", MaxQueryLength + 1)),
     QString(<<" ">> \o Rep("a", MaxQueryLength) \o <<"\t">>),
     QString(<<" ", "P", "Y", "\n">>), QString(<<"t", " ", "c">>), QString(<<"a">>)}

SearchPaging ==
    {<<JUndefined, JUndefined>>, <<JNum(2), JNum(5)>>, <<JNum(1), JNum(MaxLimit)>>,
     <<JNum(1), JNum(MaxLimit + 1)>>, <<JNum(0), JNum(0)>>, <<JNum(-1), JNum(-1)>>,
     <<JHalf(3), JHalf(5)>>, <<JNum(3), JNum(1)>>, <<JNum(4), JNum(3)>>,
     <<JString, JNaN>>}

InitSearch ==
    /\ cache = <<>>
    /\ stats = NoStats
    /\ nextCachedPenalty = FALSE
    /\ now = 0
    /\ \E n \in SearchNums :
         upstream = [num |-> n,
                     comics |-> [id \in 1..n |-> SearchComic(id)],
                     missing |-> {n - 1},
                     flaky |-> {LatestUrl, n - 2}]
    /\ loc = [p \in Procs |-> IdleLoc]
    /\ budget = [ticks |-> 0, edits |-> 0, calls |-> 1, searches |-> MaxSearches]

\* the clock reaches the deadline of a pending timer
TimerDue ==
    /\ \E p \in Procs :
         /\ loc[p].pc \in {"L_penalty", "L_cold"}
         /\ now < loc[p].timer
         /\ now' = loc[p].timer
    /\ UNCHANGED <<cache, nextCachedPenalty, upstream, loc, budget, stats>>

CallSearch(p) ==
    /\ loc[p].pc = "idle"
    /\ budget.searches > 0
    /\ budget' = [budget EXCEPT !.searches = @ - 1]
    /\ \E q \in SearchQueries : \E pl \in SearchPaging :
         loc' = [loc EXCEPT ![p] =
                   Set(IdleLoc, [pc |-> "S_enter", op |-> "search", query |-> q,
                                 page |-> pl[1], limit |-> pl[2]])]
    /\ UNCHANGED <<cache, nextCachedPenalty, now, upstream, stats>>

NextSearch ==
    \/ TimerDue
    \/ \E p \in SearchProcs : CallGetLatest(p)
    \/ \E p \in SearchProcs : CallGetById(p)
    \/ \E p \in SearchProcs : CallSearch(p)
    \/ \E p \in SearchProcs : getLatest(p)
    \/ \E p \in SearchProcs : getLatest_penaltyDone(p)
    \/ \E p \in SearchProcs : getLatest_fetched(p)
    \/ \E p \in SearchProcs : getLatest_parsed(p)
    \/ \E p \in SearchProcs : getLatest_coldDone(p)
    \/ \E p \in SearchProcs : getById(p)
    \/ \E p \in SearchProcs : getById_fetched(p)
    \/ \E p \in SearchProcs : getById_parsed(p)
    \/ \E p \in SearchProcs : search(p)
    \/ \E p \in SearchProcs : search_afterLatest(p)
    \/ \E p \in SearchProcs : search_afterById(p)

SpecSearch == InitSearch /\ [][NextSearch]_vars

-----------------------------------------------------------------------------
(* getRandom, by one client, while upstream publishes a new comic *)

RandomProcs == {"c1"}

InitRandom ==
    /\ cache = <<>>
    /\ stats = NoStats
    /\ nextCachedPenalty = FALSE
    /\ now = 0
    /\ upstream = [num |-> MaxNum,
                   comics |-> [id \in 1..(MaxNum + 1) |-> RawComic(id, <<"a">>)],
                   missing |-> UpstreamMissing,
                   flaky |-> {LatestUrl, MaxNum}]
    /\ loc = [p \in Procs |-> IdleLoc]
    /\ budget = [ticks |-> 0, edits |-> MaxEdits, calls |-> MaxCalls, searches |-> 0]

\* upstream publishes the next comic
Publish ==
    /\ budget.edits > 0
    /\ upstream.num < Len(upstream.comics)
    /\ upstream' = [upstream EXCEPT !.num = @ + 1]
    /\ budget' = [budget EXCEPT !.edits = @ - 1]
    /\ UNCHANGED <<cache, nextCachedPenalty, now, loc, stats>>

NextRandom ==
    \/ TimerDue
    \/ Publish
    \/ \E p \in RandomProcs : CallGetRandom(p)
    \/ \E p \in RandomProcs : getLatest(p)
    \/ \E p \in RandomProcs : getLatest_penaltyDone(p)
    \/ \E p \in RandomProcs : getLatest_fetched(p)
    \/ \E p \in RandomProcs : getLatest_parsed(p)
    \/ \E p \in RandomProcs : getLatest_coldDone(p)
    \/ \E p \in RandomProcs : getById(p)
    \/ \E p \in RandomProcs : getById_fetched(p)
    \/ \E p \in RandomProcs : getById_parsed(p)
    \/ \E p \in RandomProcs : getRandom_afterLatest(p)
    \/ \E p \in RandomProcs : getRandom_afterById(p)

SpecRandom == InitRandom /\ [][NextRandom]_vars

-----------------------------------------------------------------------------
(* GET /api/comics/:id *)

Digits == <<"0", "1", "2", "3", "4", "5", "6", "7", "8", "9">>
HexLetters == <<"a", "b", "c", "d", "e", "f">>

isDigit(c) == \E k \in 1..10 : Digits[k] = c
isHexDigit(c) == isDigit(c) \/ \E k \in 1..6 : HexLetters[k] = c
allDigits(s) == \A k \in 1..Len(s) : isDigit(s[k])

digitOf(c) == (CHOOSE k \in 1..10 : Digits[k] = c) - 1

\* Numbers above Huge are held as Huge: the code asks of them only whether
\* they are integers and whether they are above 0.
Huge == 100000000

RECURSIVE natOf(_)
\* the value of a string of decimal digits
natOf(s) ==
    IF s = <<>> THEN 0
    ELSE LET front == natOf(SubSeq(s, 1, Len(s) - 1))
         IN IF front >= Huge THEN Huge ELSE front * 10 + digitOf(s[Len(s)])

RECURSIVE timesPow10(_, _)
\* m * 10^k
timesPow10(m, k) ==
    IF k = 0 \/ m = 0 THEN m ELSE IF m >= Huge THEN Huge ELSE timesPow10(10 * m, k - 1)

RECURSIVE floorPow10(_, _)
\* Math.floor(m / 10^k)
floorPow10(m, k) == IF k = 0 \/ m = 0 THEN m ELSE floorPow10(m \div 10, k - 1)

RECURSIVE dividesPow10(_, _)
\* 10^k divides m
dividesPow10(m, k) ==
    IF k = 0 \/ m = 0 THEN TRUE
    ELSE IF m % 10 # 0 THEN FALSE ELSE dividesPow10(m \div 10, k - 1)

\* m * 10^k as a number: a number that is not an integer is held as the
\* half between the two integers around it
decimalValue(m, k) ==
    IF k >= 0 THEN JNum(timesPow10(m, k))
    ELSE IF dividesPow10(m, -k) THEN JNum(floorPow10(m, -k))
    ELSE JHalf(2 * floorPow10(m, -k) + 1)

negate(v) == IF v.t = "number" THEN JHalf(-v.twice) ELSE v

\* the positions of character c in s
positions(s, c) == {k \in 1..Len(s) : s[k] = c}

\* StrUnsignedDecimalLiteral: digits, with an optional fraction and an
\* optional exponent
unsignedDecimal(s) ==
    LET es == positions(s, "e")
        e == IF es = {} THEN Len(s) + 1 ELSE CHOOSE k \in es : TRUE
        mant == SubSeq(s, 1, e - 1)
        exp == SubSeq(s, e + 1, Len(s))
        expNeg == exp # <<>> /\ exp[1] = "-"
        expDigits == IF exp # <<>> /\ exp[1] \in {"-", "+"} THEN Tail(exp) ELSE exp
        ds == positions(mant, ".")
        d == IF ds = {} THEN Len(mant) + 1 ELSE CHOOSE k \in ds : TRUE
        int == SubSeq(mant, 1, d - 1)
        frac == SubSeq(mant, d + 1, Len(mant))
        power == IF es = {} THEN 0 ELSE natOf(expDigits)
    IN IF \/ Cardinality(es) > 1 \/ Cardinality(ds) > 1
          \/ (es # {} /\ (expDigits = <<>> \/ ~allDigits(expDigits)))
          \/ ~allDigits(int) \/ ~allDigits(frac)
          \/ int \o frac = <<>>
       THEN JNaN
       ELSE decimalValue(natOf(int \o frac),
                         (IF expNeg THEN -power ELSE power) - Len(frac))

RECURSIVE hexOf(_)
hexOf(s) ==
    IF s = <<>> THEN 0
    ELSE LET front == hexOf(SubSeq(s, 1, Len(s) - 1))
             c == s[Len(s)]
             v == IF isDigit(c) THEN digitOf(c)
                  ELSE 9 + CHOOSE k \in 1..6 : HexLetters[k] = c
         IN IF front >= Huge THEN Huge ELSE front * 16 + v

\* Number(value) of a string: blanks at both ends are dropped, the empty
\* string is 0, 0x starts a hexadecimal integer, a decimal literal may
\* carry a sign, a fraction and an exponent, and anything else is NaN
Number(value) ==
    LET s == trim(value)
    IN IF s = <<>> THEN JNum(0)
       ELSE IF Len(s) >= 2 /\ s[1] = "0" /\ s[2] = "x"
       THEN (IF Len(s) >= 3 /\ \A k \in 3..Len(s) : isHexDigit(s[k])
             THEN JNum(hexOf(SubSeq(s, 3, Len(s)))) ELSE JNaN)
       ELSE IF s[1] = "-" THEN negate(unsignedDecimal(Tail(s)))
       ELSE IF s[1] = "+" THEN unsignedDecimal(Tail(s))
       ELSE unsignedDecimal(s)

RECURSIVE digitPrefix(_)
\* the longest prefix of s that consists of digits
digitPrefix(s) ==
    IF s = <<>> \/ ~isDigit(s[1]) THEN <<>> ELSE <<s[1]>> \o digitPrefix(Tail(s))

RECURSIVE trimStart(_)
trimStart(s) == IF s # <<>> /\ s[1] \in WhiteSpace THEN trimStart(Tail(s)) ELSE s

\* parseInt(value, 10): leading blanks are dropped, a sign is read, and the
\* digits that follow are the number, whatever comes after them
parseInt(value) ==
    LET s == trimStart(value)
        neg == s # <<>> /\ s[1] = "-"
        rest == IF s # <<>> /\ s[1] \in {"-", "+"} THEN Tail(s) ELSE s
    IN IF digitPrefix(rest) = <<>> THEN JNaN
       ELSE IF neg THEN JNum(-natOf(digitPrefix(rest)))
       ELSE JNum(natOf(digitPrefix(rest)))

MsgPositiveInteger == <<"Comic ID must be a positive integer">>
MsgInternal == <<"Internal Server Error">>
MsgWentWrong == <<"Something went wrong on our end">>
MsgNoSuchComic == <<"The requested comic does not exist">>
MsgQueryLength == <<"Query must be between 1 and 100 characters">>
MsgPage == <<"Page must be a positive integer">>
MsgLimit == <<"Limit must be between 1 and 50">>

\* param('id').custom: !Number.isInteger(n) || n <= 0, n = Number(value)
idParamInvalid(value) ==
    ~isInteger(Number(value)) \/ lessOrEqualZero(Number(value))

\* String(err.message).includes(text)
messageIncludes(m, text) == \E k \in 1..Len(m) : m[k] = text

\* the error handler of the application, of an error named Error
errorHandler(m) ==
    IF m = MsgNotFound
    THEN [status |-> 404, error |-> MsgNotFound, message |-> MsgNoSuchComic]
    ELSE IF m = MsgInvalidId
    THEN [status |-> 400, error |-> MsgInvalidId, message |-> MsgPositiveInteger]
    ELSE [status |-> 500, error |-> MsgInternal, message |-> MsgWentWrong]

\* the response is sent: what the model keeps of the request
Responded(l, status, error) ==
    Set(IdleLoc, [op |-> l.op, param |-> l.param, passed |-> l.passed, ret |-> l.ret,
                  log |-> l.log, status |-> status, error |-> error,
                  query |-> l.query, qpage |-> l.qpage, qlimit |-> l.qlimit,
                  sres |-> l.sres, latest |-> l.latest])

\* next(err): the response is the error handler's
Failed(l) ==
    Set(Responded(l, errorHandler(l.ret.msg).status, errorHandler(l.ret.msg).error),
        [message |-> errorHandler(l.ret.msg).message])

\* the path segment that decodes to the parameter v: a blank travels as %20
encoded(v) ==
    [k \in 1..Len(v) |-> IF v[k] = " " THEN "%20" ELSE v[k]]

\* `${req.method} ${req.path}`
endpoint(method, path) == <<method, " ">> \o path

\* stats.endpointStats[endpoint] || 0
countOrZero(es, k) == IF k \in DOMAIN es /\ es[k] # 0 THEN es[k] ELSE 0

\* the stats middleware as it would be were the count set to 1, not added to
statsMiddlewareSet(s, method, path) ==
    [totalRequests |-> s.totalRequests + 1,
     endpointStats |->
        [k \in DOMAIN s.endpointStats \cup {endpoint(method, path)} |->
            IF k = endpoint(method, path) THEN 1 ELSE s.endpointStats[k]],
     startTime |-> s.startTime]

\* the stats middleware: stats after the request method path has passed it
statsMiddleware(s, method, path) ==
    [totalRequests |-> s.totalRequests + 1,
     endpointStats |->
        [k \in DOMAIN s.endpointStats \cup {endpoint(method, path)} |->
            IF k = endpoint(method, path)
            THEN countOrZero(s.endpointStats, k) + 1
            ELSE s.endpointStats[k]],
     startTime |-> s.startTime]

\* the characters of the :id parameters the client sends
IdChars == {"0", "1", "2", ".", "-", "e", "x", "a", " "}
IdParams == UNION {[1..n -> IdChars] : n \in 1..MaxLen}

\* GET /api/comics/:id arrives
Request(p) ==
    /\ loc[p].pc = "idle"
    /\ budget.calls > 0
    /\ budget' = [budget EXCEPT !.calls = @ - 1]
    /\ \E v \in IdParams :
         /\ stats' = statsMiddleware(stats, "GET", <<"/api/comics/">> \o encoded(v))
         /\ loc' = [loc EXCEPT ![p] =
                     Set(IdleLoc, [pc |-> "H_validate", op |-> "GET /:id", param |-> v])]
    /\ UNCHANGED <<cache, nextCachedPenalty, now, upstream>>

\* the validation chain has run: validate answers 400 or calls next()
validate(p) ==
    /\ loc[p].pc = "H_validate"
    /\ loc' = [loc EXCEPT ![p] =
         IF idParamInvalid(@.param)
         THEN Responded(@, 400, MsgPositiveInteger)
         ELSE Set(@, [pc |-> "H_handler"])]
    /\ UNCHANGED <<cache, nextCachedPenalty, now, upstream, budget, stats>>

\* the handler: getById(parseInt(req.params.id, 10))
getComic(p) ==
    /\ loc[p].pc = "H_handler"
    /\ loc' = [loc EXCEPT ![p] =
         Set(@, [pc |-> "B_enter", arg |-> parseInt(@.param), passed |-> parseInt(@.param)])]
    /\ UNCHANGED <<cache, nextCachedPenalty, now, upstream, budget, stats>>

\* getById has settled: res.json(comic), or the catch block of the handler
getComic_afterById(p) ==
    /\ loc[p].pc = "H_byId"
    /\ loc' = [loc EXCEPT ![p] =
         IF @.ret.ok THEN Responded(@, 200, <<>>)
         ELSE IF messageIncludes(@.ret.msg, "Comic not found")
         THEN Responded(@, 404, MsgNotFound)
         ELSE IF messageIncludes(@.ret.msg, "Invalid comic ID")
         THEN Responded(@, 400, MsgPositiveInteger)
         ELSE Failed(@)]
    /\ UNCHANGED <<cache, nextCachedPenalty, now, upstream, budget, stats>>

\* GET /api/comics/latest arrives: the handler calls getLatest
RequestLatest(p) ==
    /\ loc[p].pc = "idle"
    /\ budget.calls > 0
    /\ budget' = [budget EXCEPT !.calls = @ - 1]
    /\ stats' = statsMiddleware(stats, "GET", <<"/api/comics/latest">>)
    /\ loc' = [loc EXCEPT ![p] = Set(IdleLoc, [pc |-> "L_enter", op |-> "GET /latest"])]
    /\ UNCHANGED <<cache, nextCachedPenalty, now, upstream>>

\* GET /api/comics/random arrives: the handler calls getRandom
RequestRandom(p) ==
    /\ loc[p].pc = "idle"
    /\ budget.calls > 0
    /\ budget' = [budget EXCEPT !.calls = @ - 1]
    /\ stats' = statsMiddleware(stats, "GET", <<"/api/comics/random">>)
    /\ loc' = [loc EXCEPT ![p] = Set(IdleLoc, [pc |-> "L_enter", op |-> "GET /random"])]
    /\ UNCHANGED <<cache, nextCachedPenalty, now, upstream>>

\* getLatest, getRandom or search has settled: res.json(...), or next(err)
respond(p) ==
    /\ loc[p].pc \in {"H_latest", "H_random", "H_search"}
    /\ loc' = [loc EXCEPT ![p] = IF @.ret.ok THEN Responded(@, 200, <<>>) ELSE Failed(@)]
    /\ UNCHANGED <<cache, nextCachedPenalty, now, upstream, budget, stats>>

\* isInt({ min, max }) of express-validator: an optional sign and digits
isInt(v, min, max) ==
    LET ds == IF v # <<>> /\ v[1] \in {"-", "+"} THEN Tail(v) ELSE v
        n == IF v # <<>> /\ v[1] = "-" THEN -natOf(ds) ELSE natOf(ds)
    IN ds # <<>> /\ allDigits(ds) /\ n >= min /\ n <= max

\* query('q').custom: the length of q as sent, '' when q is not a string
qInvalid(value) ==
    LET v == IF value.t = "string" THEN value.s ELSE <<>>
    IN Len(v) < MinQueryLength \/ Len(v) > MaxQueryLength

\* the messages of the validation chain of /search, in the order of the chain
searchErrors(q, page, limit) ==
    (IF qInvalid(q) THEN <<MsgQueryLength>> ELSE <<>>)
    \o (IF page.t = "string" /\ ~isInt(page.s, 1, Huge) THEN <<MsgPage>> ELSE <<>>)
    \o (IF limit.t = "string" /\ ~isInt(limit.s, 1, MaxLimit) THEN <<MsgLimit>> ELSE <<>>)

\* req.query.page ? parseInt(req.query.page, 10) : 1
queryInt(v, d) == IF v.t = "string" /\ v.s # <<>> THEN parseInt(v.s) ELSE JNum(d)

\* the q, page and limit of the search requests the client sends
HttpQueries ==
    {QUndefined, QString(<<>>), QString(<<" ">>), QString(Rep(" ", 3)),
     QString(Rep(" ", MaxQueryLength + 1)), QString(Rep("a", MaxQueryLength + 1)),
     QString(<<" ">> \o Rep("a", MaxQueryLength - 1)),
     QString(<<" ">> \o Rep("a", MaxQueryLength)), QString(<<"a">>)}
HttpPaging ==
    {<<QUndefined, QUndefined>>, <<QString(<<"2">>), QString(<<"5">>)>>,
     <<QString(<<"0">>), QUndefined>>, <<QUndefined, QString(<<"5", "1">>)>>}

\* GET /api/comics/search arrives
RequestSearch(p) ==
    /\ loc[p].pc = "idle"
    /\ budget.calls > 0
    /\ budget' = [budget EXCEPT !.calls = @ - 1]
    /\ stats' = statsMiddleware(stats, "GET", <<"/api/comics/search">>)
    /\ \E q \in HttpQueries : \E pl \in HttpPaging :
         loc' = [loc EXCEPT ![p] =
                   Set(IdleLoc, [pc |-> "H_qvalidate", op |-> "GET /search", query |-> q,
                                 qpage |-> pl[1], qlimit |-> pl[2]])]
    /\ UNCHANGED <<cache, nextCachedPenalty, now, upstream>>

\* the validation chain of /search has run: validate answers 400 with the
\* first message or calls next()
validateSearch(p) ==
    /\ loc[p].pc = "H_qvalidate"
    /\ loc' = [loc EXCEPT ![p] =
         IF searchErrors(@.query, @.qpage, @.qlimit) # <<>>
         THEN Responded(@, 400, searchErrors(@.query, @.qpage, @.qlimit)[1])
         ELSE Set(@, [pc |-> "H_qhandler"])]
    /\ UNCHANGED <<cache, nextCachedPenalty, now, upstream, budget, stats>>

\* the handler of /search: search(q, page, limit)
getSearch(p) ==
    /\ loc[p].pc = "H_qhandler"
    /\ loc' = [loc EXCEPT ![p] =
         Set(@, [pc |-> "S_enter", page |-> queryInt(@.qpage, DefaultPage),
                 limit |-> queryInt(@.qlimit, DefaultLimit)])]
    /\ UNCHANGED <<cache, nextCachedPenalty, now, upstream, budget, stats>>

\* GET /api/stats arrives: the counters, this request counted, are the body
RequestStats(p) ==
    /\ loc[p].pc = "idle"
    /\ budget.calls > 0
    /\ budget' = [budget EXCEPT !.calls = @ - 1]
    /\ stats' = statsMiddleware(stats, "GET", <<"/api/stats">>)
    /\ loc' = [loc EXCEPT ![p] =
                 Set(IdleLoc, [op |-> "GET /api/stats", status |-> 200,
                               body |-> [totalRequests |-> stats'.totalRequests,
                                         endpointStats |-> stats'.endpointStats,
                                         uptime |-> now - stats'.startTime]])]
    /\ UNCHANGED <<cache, nextCachedPenalty, now, upstream>>

\* GET /api/health arrives
RequestHealth(p) ==
    /\ loc[p].pc = "idle"
    /\ budget.calls > 0
    /\ budget' = [budget EXCEPT !.calls = @ - 1]
    /\ stats' = statsMiddleware(stats, "GET", <<"/api/health">>)
    /\ loc' = [loc EXCEPT ![p] = Set(IdleLoc, [op |-> "GET /api/health", status |-> 200])]
    /\ UNCHANGED <<cache, nextCachedPenalty, now, upstream>>

\* the requests that match no route above app.all('/api/*')
OtherMethods == {"GET", "POST", "DELETE"}
OtherPaths == {<<"/api/stats">>, <<"/api/health">>, <<"/api/comics/latest">>, <<"/api/nope">>}
OtherRequests ==
    {r \in OtherMethods \X OtherPaths : r[1] # "GET"} \cup {<<"GET", <<"/api/nope">>>>}

\* a request that no route above matches arrives: 404 'Endpoint not found'
RequestOther(p) ==
    /\ loc[p].pc = "idle"
    /\ budget.calls > 0
    /\ budget' = [budget EXCEPT !.calls = @ - 1]
    /\ \E r \in OtherRequests :
         /\ stats' = statsMiddleware(stats, r[1], r[2])
         /\ loc' = [loc EXCEPT ![p] =
                     Set(IdleLoc, [op |-> "ALL /api/*", status |-> 404,
                                   error |-> <<"Endpoint not found">>])]
    /\ UNCHANGED <<cache, nextCachedPenalty, now, upstream>>

HttpProcs == {"c1"}

InitHttp ==
    /\ cache = <<>>
    /\ stats = NoStats
    /\ nextCachedPenalty = FALSE
    /\ now = 0
    /\ upstream = [num |-> MaxNum,
                   comics |-> [id \in 1..MaxNum |-> RawComic(id, <<"a">>)],
                   missing |-> UpstreamMissing,
                   flaky |-> 0..MaxNum]
    /\ loc = [p \in Procs |-> IdleLoc]
    /\ budget = [ticks |-> 0, edits |-> 0, calls |-> MaxRequests, searches |-> 0]

NextHttp ==
    \/ \E p \in HttpProcs : Request(p)
    \/ \E p \in HttpProcs : validate(p)
    \/ \E p \in HttpProcs : getComic(p)
    \/ \E p \in HttpProcs : getById(p)
    \/ \E p \in HttpProcs : getById_fetched(p)
    \/ \E p \in HttpProcs : getById_parsed(p)
    \/ \E p \in HttpProcs : getComic_afterById(p)
    \/ TimerDue
    \/ \E p \in HttpProcs : RequestLatest(p)
    \/ \E p \in HttpProcs : RequestRandom(p)
    \/ \E p \in HttpProcs : RequestSearch(p)
    \/ \E p \in HttpProcs : validateSearch(p)
    \/ \E p \in HttpProcs : getSearch(p)
    \/ \E p \in HttpProcs : respond(p)
    \/ \E p \in HttpProcs : getLatest(p)
    \/ \E p \in HttpProcs : getLatest_penaltyDone(p)
    \/ \E p \in HttpProcs : getLatest_fetched(p)
    \/ \E p \in HttpProcs : getLatest_parsed(p)
    \/ \E p \in HttpProcs : getLatest_coldDone(p)
    \/ \E p \in HttpProcs : getRandom_afterLatest(p)
    \/ \E p \in HttpProcs : getRandom_afterById(p)
    \/ \E p \in HttpProcs : search(p)
    \/ \E p \in HttpProcs : search_afterLatest(p)
    \/ \E p \in HttpProcs : search_afterById(p)
    \/ \E p \in HttpProcs : RequestStats(p)
    \/ \E p \in HttpProcs : RequestHealth(p)
    \/ \E p \in HttpProcs : RequestOther(p)

SpecHttp == InitHttp /\ [][NextHttp]_vars

-----------------------------------------------------------------------------
(* What the claims speak of *)

\* a positive integer, as the claims mean it
PositiveInteger(v) == v.t = "number" /\ v.twice % 2 = 0 /\ v.twice >= 2

\* the entry under key k is within its TTL, as the claims mean it
WithinTTL(k) == k \in DOMAIN cache /\ now - cache[k].timestamp < cacheTimeout

\* client p takes the step that runs the synchronous head of callee at
Enters(p, at) == loc[p].pc = at /\ loc'[p] # loc[p]

\* the key a getById lookup of client p is about
ArgKey(p) == ComicKey(intOf(loc[p].arg))

InFlightById == {"B_fetch", "B_json"}
InFlightLatest == {"L_fetch", "L_json"}

-----------------------------------------------------------------------------
(* C1 *)

\* C1 as stated: a getById(id) that a client repeats while less than the TTL
\* has elapsed since the entry of its first, successful call was stored
\* returns the first call's comic and performs no upstream fetch.
C1_AsStated ==
    [][\A p \in Procs :
         (/\ Enters(p, "B_enter")
          /\ loc[p].op = "getById"
          /\ loc[p].prev.id = intOf(loc[p].arg)
          /\ PositiveInteger(loc[p].arg)
          /\ now - loc[p].prev.at < cacheTimeout)
         => /\ loc'[p].pc = "idle"
            /\ loc'[p].ret = Ok(loc[p].prev.val)]_vars

\* C1, amended: a getById(id) called while the entry of id is within its TTL
\* performs no upstream fetch, leaves the cache as it is and returns the
\* comic the entry holds; that is the comic of the client's previous
\* successful getById(id) whenever the entry is still the one that call left.
C1_CachedWithinTTL ==
    [][\A p \in Procs :
         (Enters(p, "B_enter") /\ PositiveInteger(loc[p].arg) /\ WithinTTL(ArgKey(p)))
         => /\ loc'[p].pc \notin InFlightById
            /\ loc'[p].ret = Ok(cache[ArgKey(p)].data)
            /\ cache' = cache
            /\ (/\ loc[p].prev.id = intOf(loc[p].arg)
                /\ loc[p].prev.gen = cache[ArgKey(p)].gen)
               => loc'[p].ret = Ok(loc[p].prev.val)]_vars

\* a client has repeated a successful getById(id) and was served from the cache
C1_Witness ==
    \E p \in Procs :
        /\ loc[p].pc = "idle" /\ loc[p].op = "getById"
        /\ loc[p].again /\ loc[p].ret.ok /\ loc[p].log = <<>>

-----------------------------------------------------------------------------
(* C2 *)

\* C2: a getRandom whose getLatest succeeded and whose getById attempts were
\* all answered 404 by upstream returns successfully, with the latest comic.
C2_RandomFallsBack ==
    \A p \in Procs :
        (/\ loc[p].pc = "idle" /\ loc[p].op = "getRandom"
         /\ loc[p].log # <<>>
         /\ \A n \in 1..Len(loc[p].log) : loc[p].log[n] = "404")
        => loc[p].ret.ok /\ loc[p].ret.val.id = upstream.num

-----------------------------------------------------------------------------
(* C3 *)

\* C3: a getById that upstream answered with a 404 fails with the message
\* that is exactly "Comic not found".
C3_NotFoundMessage ==
    \A p \in Procs :
        (loc[p].pc = "idle" /\ loc[p].op = "getById" /\ loc[p].log = <<"404">>)
        => ~loc[p].ret.ok /\ loc[p].ret.msg = <<"Comic not found">>

-----------------------------------------------------------------------------
(* C4 *)

\* C4: getById of an id that is not a positive integer fails with "Invalid
\* comic ID" in its first step: no upstream request is issued and the cache
\* is left as it is.
C4_InvalidIdRejected ==
    [][\A p \in Procs :
         (Enters(p, "B_enter") /\ ~PositiveInteger(loc[p].arg))
         => /\ loc'[p].pc \notin InFlightById
            /\ loc'[p].ret = Err(<<"Invalid comic ID">>)
            /\ loc'[p].log = loc[p].log
            /\ cache' = cache]_vars

\* a getById call has failed with the invalid-id error
C4_Witness ==
    \E p \in Procs :
        /\ loc[p].pc = "idle" /\ loc[p].op = "getById"
        /\ loc[p].ret = Err(<<"Invalid comic ID">>)

-----------------------------------------------------------------------------
(* C5 *)

\* C5: a getLatest that finds the entry "latest" within its TTL issues no
\* upstream fetch and returns the comic the entry holds; one that finds it
\* absent or with now - timestamp >= TTL issues an upstream fetch, and when
\* that fetch succeeds the entry is set anew, with timestamp now, later than
\* the timestamp of the stale entry found.
C5_LatestExpiry ==
    [][\A p \in Procs :
         /\ (Enters(p, "L_enter") /\ WithinTTL(LatestKey))
            => /\ loc'[p].pc \notin InFlightLatest
               /\ cache' = cache
               /\ IF loc'[p].pc = "L_penalty"
                  THEN loc'[p].cached = cache[LatestKey].data
                  ELSE loc'[p].ret = Ok(cache[LatestKey].data)
         /\ Enters(p, "L_penalty") => loc'[p].ret = Ok(loc[p].cached) /\ cache' = cache
         /\ (Enters(p, "L_enter") /\ ~WithinTTL(LatestKey)) => loc'[p].pc = "L_fetch"
         /\ (Enters(p, "L_json") /\ loc'[p].pc = "L_cold")
            => /\ LatestKey \in DOMAIN cache'
               /\ cache'[LatestKey].timestamp = now
               /\ cache'[LatestKey].timestamp > loc[p].saw
               /\ cache'[LatestKey].data = loc'[p].cached
         /\ Enters(p, "L_cold") => loc'[p].ret = Ok(loc[p].cached)]_vars

\* a getLatest found a stale entry, fetched, and has set the entry anew
C5_Witness ==
    \E p \in Procs :
        /\ loc[p].pc = "L_cold"
        /\ loc[p].saw >= 0
        /\ cache[LatestKey].timestamp >= loc[p].saw + cacheTimeout
        /\ cache[LatestKey].gen >= 2

-----------------------------------------------------------------------------
(* C6 *)

\* C6: a lookup that finds its key absent or stale goes on to fetch from
\* upstream whatever the other clients are doing, so two fetches of one key
\* can be in flight together.
C6_EveryMissFetches ==
    [][\A p \in Procs :
         /\ (Enters(p, "B_enter") /\ PositiveInteger(loc[p].arg) /\ ~WithinTTL(ArgKey(p)))
            => loc'[p].pc = "B_fetch"
         /\ (Enters(p, "L_enter") /\ ~WithinTTL(LatestKey))
            => loc'[p].pc = "L_fetch"]_vars

\* two fetches of the same comic, and two of the latest comic, are in flight
C6_Witness ==
    \E p, q \in Procs :
        /\ p # q
        /\ loc[p].pc = "B_fetch" /\ loc[q].pc = "B_fetch"
        /\ loc[p].arg = loc[q].arg

C6_WitnessLatest ==
    \E p, q \in Procs : p # q /\ loc[p].pc = "L_fetch" /\ loc[q].pc = "L_fetch"

-----------------------------------------------------------------------------
(* C7 *)

\* the length of the query once trimmed lies outside [1, 100]
TrimmedLengthOutside(q) == q.t = "string" /\ (Len(trim(q.s)) < 1 \/ Len(trim(q.s)) > 100)

\* C7: a search whose query, trimmed, is shorter than 1 or longer than 100
\* characters fails with "Invalid search query" in its first step: no
\* upstream request is issued, getLatest and getById are not entered, and
\* the cache is left as it is.
C7_InvalidQueryRejected ==
    [][\A p \in Procs :
         (Enters(p, "S_enter") /\ TrimmedLengthOutside(loc[p].query))
         => /\ loc'[p].pc = "idle"
            /\ loc'[p].ret = Err(<<"Invalid search query">>)
            /\ loc'[p].log = loc[p].log
            /\ loc'[p].asked = <<>>
            /\ cache' = cache
            /\ nextCachedPenalty' = nextCachedPenalty]_vars

\* searches of the empty string, of 101 blanks, and of a query that is too
\* long only once trimmed have failed with the invalid-query error
C7_Witness ==
    \E p \in Procs :
        /\ loc[p].pc = "idle" /\ loc[p].op = "search"
        /\ loc[p].ret = Err(<<"Invalid search query">>)
        /\ loc[p].query = QString(Rep(" ", 101))

\* a query of 100 characters between two blanks is accepted
C7_WitnessAccepted ==
    \E p \in Procs :
        /\ loc[p].op = "search" /\ loc[p].pc = "L_fetch"
        /\ Len(loc[p].query.s) = 102

-----------------------------------------------------------------------------
(* C8 *)

\* client p has a search result
Found(p) == loc[p].pc = "idle" /\ loc[p].op = "search" /\ loc[p].ret = Ok(NoComic)

\* the least n with n * d >= a
Ceiling(a, d) == CHOOSE n \in 0..a : n * d >= a /\ (n = 0 \/ (n - 1) * d < a)

Largest(a, b) == IF a >= b THEN a ELSE b
Smallest(a, b) == IF a <= b THEN a ELSE b

\* the value of an integer argument
ArgInt(v) == v.twice \div 2

IntegerOrAbsent(v) == v.t = "undefined" \/ (v.t = "number" /\ v.twice % 2 = 0)

\* C8 as stated: page is clamped to >= 1 (1 when absent), limit into [1, 50]
\* (10 when absent), offset = (page - 1) * limit and pages = max(1,
\* ceil(total / limit)), of the clamped values.  Read of integer arguments
\* only, where clamping has one meaning.
C8_AsStated ==
    \A p \in Procs :
        (Found(p) /\ IntegerOrAbsent(loc[p].page) /\ IntegerOrAbsent(loc[p].limit))
        => LET page == IF loc[p].page.t = "undefined" THEN 1
                       ELSE Largest(1, ArgInt(loc[p].page))
               limit == IF loc[p].limit.t = "undefined" THEN 10
                        ELSE Smallest(50, Largest(1, ArgInt(loc[p].limit)))
           IN loc[p].sres.pagination =
                [page |-> page, limit |-> limit, offset |-> (page - 1) * limit,
                 pages |-> Largest(1, Ceiling(loc[p].sres.total, limit))]

\* C8: the page of the result is the page passed when that is a positive
\* integer and 1 otherwise; the limit is min(limit passed, 50) when that is
\* a positive integer and 10 otherwise (so 10, not 1, for a limit of 0 or
\* below); offset = (page - 1) * limit and pages = max(1, ceil(total /
\* limit)) of these two values; page 2 with limit 5 gives offset 5.
C8_Pagination ==
    \A p \in Procs :
        Found(p)
        => LET page == IF PositiveInteger(loc[p].page) THEN ArgInt(loc[p].page) ELSE 1
               limit == IF PositiveInteger(loc[p].limit)
                        THEN Smallest(ArgInt(loc[p].limit), 50) ELSE 10
           IN /\ loc[p].sres.pagination =
                   [page |-> page, limit |-> limit, offset |-> (page - 1) * limit,
                    pages |-> Largest(1, Ceiling(loc[p].sres.total, limit))]
              /\ (loc[p].page = JNum(2) /\ loc[p].limit = JNum(5))
                 => /\ loc[p].sres.pagination.page = 2
                    /\ loc[p].sres.pagination.limit = 5
                    /\ loc[p].sres.pagination.offset = 5

\* a search with page 2 and limit 5 has found more than one page of matches
C8_Witness ==
    \E p \in Procs :
        /\ Found(p)
        /\ loc[p].page = JNum(2) /\ loc[p].limit = JNum(5)
        /\ loc[p].sres.total > 5
        /\ loc[p].sres.pagination.pages >= 2

\* a search with a limit above 50, and one with a limit of 0, have returned
C8_WitnessCapped ==
    \E p \in Procs : Found(p) /\ loc[p].limit = JNum(51) /\ loc[p].sres.total > 0

C8_WitnessZero ==
    \E p \in Procs : Found(p) /\ loc[p].limit = JNum(0) /\ loc[p].sres.total > 0

-----------------------------------------------------------------------------
(* C9 *)

\* the comic matches the query as given to search
Matching(c, query) ==
    LET q == toLowerCase(trim(query.s))
        hay == toLowerCase(c.title \o <<" ">> \o c.transcript)
    IN \E k \in 1..(Len(hay) - Len(q) + 1) :
         \A j \in 1..Len(q) : hay[k + j - 1] = q[j]

\* the matching comics among those getById returned, in the order returned
MatchesOf(got, query) ==
    LET val(r) == r.val
        hit(r) == r.ok /\ Matching(r.val, query)
        hits == SelectSeq(got, hit)
    IN [k \in 1..Len(hits) |-> hits[k].val]

\* C9: a search that returns has called getById for maxId, maxId - 1, ...,
\* max(1, maxId - 30), each once and in this order, maxId being the id of
\* the comic getLatest returned; every comic it got is the one asked for;
\* the matches among the comics it got are in strictly descending id order,
\* results is their positions [offset, offset + limit), and total is the
\* number of all of them.
C9_WindowAndSlice ==
    \A p \in Procs :
        Found(p)
        => LET maxId == loc[p].latest.id
               lowest == Largest(1, maxId - 30)
               all == MatchesOf(loc[p].got, loc[p].query)
               res == loc[p].sres
               offset == res.pagination.offset
               limit == res.pagination.limit
           IN /\ loc[p].asked = [k \in 1..(maxId - lowest + 1) |-> maxId - k + 1]
              /\ Len(loc[p].got) = Len(loc[p].asked)
              /\ \A k \in 1..Len(loc[p].got) :
                    loc[p].got[k].ok => loc[p].got[k].val.id = loc[p].asked[k]
              /\ \A j, k \in 1..Len(all) : j < k => all[j].id > all[k].id
              /\ res.total = Len(all)
              /\ Len(res.results) = Largest(0, Smallest(limit, Len(all) - offset))
              /\ \A k \in 1..Len(res.results) : res.results[k] = all[offset + k]

\* a search over a window that does not reach comic 1 has returned a page,
\* not the first, that holds fewer comics than match
C9_Witness ==
    \E p \in Procs :
        /\ Found(p)
        /\ loc[p].latest.id = 32
        /\ loc[p].sres.pagination.offset > 0
        /\ Len(loc[p].sres.results) >= 2
        /\ loc[p].sres.total > loc[p].sres.pagination.offset + Len(loc[p].sres.results)

-----------------------------------------------------------------------------
(* C10 *)

\* the parameter is the decimal numeral of a positive integer, blanks
\* around it aside
PositiveIntegerText(v) ==
    /\ trim(v) # <<>>
    /\ \A k \in 1..Len(trim(v)) :
         trim(v)[k] \in {"0", "1", "2", "3", "4", "5", "6", "7", "8", "9"}
    /\ \E k \in 1..Len(trim(v)) : trim(v)[k] # "0"

\* client p has the response to a GET /api/comics/:id
Answered(p) == loc[p].pc = "idle" /\ loc[p].op = "GET /:id"

\* C10 as stated: a request whose id parameter is not a positive integer
\* is answered 400 "Comic ID must be a positive integer" and getById has
\* not been called for it; a request whose getById call failed on
\* upstream's 404 is answered 404 "Comic not found".
C10_IdRoute ==
    \A p \in Procs :
        Answered(p)
        => /\ ~PositiveIntegerText(loc[p].param)
              => /\ loc[p].status = 400
                 /\ loc[p].error = <<"Comic ID must be a positive integer">>
                 /\ loc[p].passed = NotCalled
           /\ (loc[p].log # <<>> /\ loc[p].log[Len(loc[p].log)] = "404")
              => /\ loc[p].status = 404
                 /\ loc[p].error = <<"Comic not found">>

-----------------------------------------------------------------------------
(* C11 *)

\* the q of the request violates the precondition of search: it is missing,
\* or its trimmed length is outside [1, 100]
ViolatesPrecondition(q) ==
    q.t # "string" \/ Len(trim(q.s)) < 1 \/ Len(trim(q.s)) > 100

\* client p has the response to a GET /api/comics/search
AnsweredSearch(p) == loc[p].pc = "idle" /\ loc[p].op = "GET /search"

\* the page and the limit of the request are absent or valid
PagingValid(p) ==
    /\ loc[p].qpage.t = "string" => PositiveIntegerText(loc[p].qpage.s)
    /\ loc[p].qlimit.t = "string"
       => PositiveIntegerText(loc[p].qlimit.s) /\ natOf(trim(loc[p].qlimit.s)) <= 50

\* C11 as stated: a search request whose q is missing or has a trimmed
\* length outside [1, 100] (its page and limit being absent or valid) is
\* answered 400 "Query must be between 1 and 100 characters", and a request
\* search() refused with "Invalid search query" is not answered 500.
C11_SearchRoute ==
    \A p \in Procs :
        AnsweredSearch(p)
        => /\ (ViolatesPrecondition(loc[p].query) /\ PagingValid(p))
              => /\ loc[p].status = 400
                 /\ loc[p].error = <<"Query must be between 1 and 100 characters">>
           /\ loc[p].ret = Err(<<"Invalid search query">>) => loc[p].status # 500

-----------------------------------------------------------------------------
(* C12 *)

\* client p has a comic from getRandom
Drawn(p) == loc[p].pc = "idle" /\ loc[p].op = "getRandom" /\ loc[p].ret.ok

\* C12: the comic a getRandom call returns has an id from 1 to maxId, the
\* id of the latest comic that call's getLatest returned (upstream
\* answering a request of id with num = id), and is the comic of the one id
\* the call asked getById for last.
C12_RandomInRange ==
    \A p \in Procs :
        Drawn(p)
        => /\ loc[p].ret.val.id >= 1
           /\ loc[p].ret.val.id <= loc[p].latest.id
           /\ loc[p].asked # <<>>
           /\ loc[p].ret.val.id = loc[p].asked[Len(loc[p].asked)]

\* getRandom has returned a comic drawn below a latest id that its cache
\* still held while upstream had published a newer comic
C12_Witness ==
    \E p \in Procs :
        /\ Drawn(p)
        /\ loc[p].latest.id = MaxNum
        /\ upstream.num > MaxNum

-----------------------------------------------------------------------------
(* C13 *)

\* client p has the failure of a getById call that upstream answered 404
Missed(p) == loc[p].pc = "idle" /\ loc[p].op = "getById" /\ loc[p].log = <<"404">>

\* C13: the cache never holds an entry comic-{id} for an id upstream
\* reports as missing, and any two getById calls that upstream answered 404
\* have failed with the same error, whatever the clients did in between;
\* the error is the not-found one, its message holding 'Comic not found'.
C13_NotFoundNotCached ==
    /\ \A k \in DOMAIN cache : k = LatestKey \/ k[2] \notin upstream.missing
    /\ \A p, q \in Procs :
         (Missed(p) /\ Missed(q))
         => /\ ~loc[p].ret.ok
            /\ loc[p].ret = loc[q].ret
            /\ \E k \in 1..Len(loc[p].ret.msg) : loc[p].ret.msg[k] = "Comic not found"

\* both clients have asked for the missing comic, one of them after the
\* clock advanced and a comic was cached
C13_Witness ==
    \E p, q \in Procs :
        /\ p # q /\ Missed(p) /\ Missed(q)
        /\ now > 0
        /\ \E k \in DOMAIN cache : k # LatestKey

-----------------------------------------------------------------------------
(* C14 *)

\* what an upstream fetch of the latest comic can fail with: a transport
\* error, a status that is not a success, a malformed body
LatestCauses ==
    {<<"request failed, reason: ECONNRESET">>,
     <<"HTTP ", "500", ": ", "Internal Server Error">>,
     <<"invalid json response body">>}

\* client p has the response to a request whose getLatest or getRandom failed
AnsweredFailure(p) ==
    /\ loc[p].pc = "idle" /\ loc[p].op \in {"GET /latest", "GET /random"}
    /\ ~loc[p].ret.ok

\* C14: when the fetch of getLatest rejects, answers a status that is not
\* ok, or has a malformed body, getLatest fails with "Failed to fetch latest
\* comic: " followed by the cause; and a request to /latest or /random whose
\* service call failed is answered 500 with error "Internal Server Error"
\* and message "Something went wrong on our end": the body is these two
\* texts whatever the error's message is.
C14_LatestFailure ==
    [][\A p \in Procs :
         /\ (loc[p].pc \in InFlightLatest /\ loc'[p].pc \notin {"L_fetch", "L_json", "L_cold"})
            => /\ ~loc'[p].ret.ok
               /\ Head(loc'[p].ret.msg) = "Failed to fetch latest comic: "
               /\ Tail(loc'[p].ret.msg) \in LatestCauses
               /\ (loc[p].pc = "L_json") = (Tail(loc'[p].ret.msg) = <<"invalid json response body">>)
         /\ AnsweredFailure(p)'
            => /\ loc'[p].status = 500
               /\ loc'[p].error = <<"Internal Server Error">>
               /\ loc'[p].message = <<"Something went wrong on our end">>
               /\ loc'[p].ret.msg # <<>>]_vars

\* a request to /latest has been answered 500 after upstream answered 500,
\* and one to /random after getById failed
C14_Witness ==
    \E p \in Procs :
        /\ AnsweredFailure(p) /\ loc[p].op = "GET /latest"
        /\ loc[p].status = 500
        /\ loc[p].ret.msg = <<"Failed to fetch latest comic: ", "HTTP ", "500", ": ",
                              "Internal Server Error">>

C14_WitnessRandom ==
    \E p \in Procs :
        /\ AnsweredFailure(p) /\ loc[p].op = "GET /random"
        /\ loc[p].status = 500
        /\ Head(loc[p].ret.msg) = "Failed to fetch random comic: "

-----------------------------------------------------------------------------
(* C15 *)

\* client p takes the step in which a successful fetch of the latest comic
\* is stored
Refreshes(p) == loc[p].pc = "L_json" /\ loc'[p].pc = "L_cold"

\* client p takes the step of a getLatest that finds the entry fresh
Hits(p) == Enters(p, "L_enter") /\ WithinTTL(LatestKey)

\* C15: a successful refresh arms the flag; a fresh hit of getLatest (of a
\* client's own call, or of getRandom's) that finds the flag armed is
\* delayed and clears it in the same step; one that finds it clear returns
\* at once and leaves it clear; and no other step changes the flag.  So
\* between two delayed hits there is a refresh, whatever the interleaving.
C15_PenaltyOneShot ==
    [][/\ \A p \in Procs :
            /\ Refreshes(p) => nextCachedPenalty'
            /\ (Hits(p) /\ nextCachedPenalty)
               => (loc'[p].pc = "L_penalty" /\ ~nextCachedPenalty')
            /\ (Hits(p) /\ ~nextCachedPenalty)
               => /\ loc'[p].pc \notin {"L_penalty", "L_fetch", "L_enter"}
                  /\ ~nextCachedPenalty'
            /\ (loc'[p].pc = "L_penalty" /\ loc[p].pc # "L_penalty")
               => (Hits(p) /\ nextCachedPenalty)
       /\ nextCachedPenalty' # nextCachedPenalty
          => (\E q \in Procs : Refreshes(q) \/ Hits(q))]_vars

\* one client is in the delay of the hit that consumed the penalty while
\* another is about to hit the same fresh entry
C15_Witness ==
    \E p, q \in Procs :
        /\ p # q
        /\ loc[p].pc = "L_penalty" /\ ~nextCachedPenalty
        /\ loc[q].pc = "L_enter" /\ loc[q].op = "getRandom"
        /\ WithinTTL(LatestKey)

-----------------------------------------------------------------------------
(* C16 *)

\* the attempt of client p that has just settled failed, and upstream had
\* answered it 404
AttemptNotFound(p) ==
    ~loc[p].ret.ok /\ loc[p].log # <<>> /\ loc[p].log[Len(loc[p].log)] = "404"

\* C16: in a getRandom call, a further getById attempt is made only when
\* the attempt before it failed on upstream's 404 and fewer than 5 have
\* been made; an attempt that fails otherwise ends the call in that step
\* with "Failed to fetch random comic: " followed by the attempt's message,
\* and nothing replaces the error by the latest comic; no call makes more
\* than 5 attempts.
C16_RandomAttempts ==
    [][\A p \in Procs :
         /\ (loc[p].pc = "R_byId" /\ loc'[p] # loc[p])
            => /\ loc'[p].pc = "B_enter"
                  => (AttemptNotFound(p) /\ Len(loc[p].asked) < 5)
               /\ (~loc[p].ret.ok /\ ~AttemptNotFound(p))
                  => /\ loc'[p].pc = "idle"
                     /\ loc'[p].ret =
                          Err(<<"Failed to fetch random comic: ">> \o loc[p].ret.msg)
                     /\ loc'[p].asked = loc[p].asked
         /\ loc'[p].op = "getRandom" => Len(loc'[p].asked) <= 5]_vars

\* a getRandom call has ended on its first attempt, which upstream answered
\* 500
C16_Witness ==
    \E p \in Procs :
        /\ loc[p].pc = "idle" /\ loc[p].op = "getRandom"
        /\ loc[p].log = <<"500">> /\ Len(loc[p].asked) = 1
        /\ loc[p].ret = Err(<<"Failed to fetch random comic: ",
                               "Failed to fetch comic by ID: ",
                               "HTTP ", "500", ": ", "Internal Server Error">>)

-----------------------------------------------------------------------------
(* C17 *)

\* r is the failure of a getById that upstream answered 404
NotFoundFailure(r) == ~r.ok /\ \E j \in 1..Len(r.msg) : r.msg[j] = "Comic not found"

\* r is a failure of getById of another kind
OtherFailure(r) == ~r.ok /\ ~NotFoundFailure(r)

\* client p's search is over
Searched(p) == loc[p].pc = "idle" /\ loc[p].op = "search"

\* C17 as stated: a search in whose scan a getById failed otherwise than by
\* not-found has failed.
C17_ScanFailurePropagates ==
    \A p \in Procs :
        (Searched(p) /\ \E k \in 1..Len(loc[p].got) : OtherFailure(loc[p].got[k]))
        => ~loc[p].ret.ok

-----------------------------------------------------------------------------
(* C18 *)

\* C18: when a getById of the scan fails on upstream's 404 and ids of the
\* window remain, the next step asks for the next lower id with the matches
\* found so far; and a search in whose scan a getById failed on a 404 has
\* asked for every id of the window, has returned, and its matches are
\* those among the comics it got.
C18_GapSkipped ==
    [][\A p \in Procs :
         /\ (loc[p].pc = "S_byId" /\ loc'[p] # loc[p] /\ NotFoundFailure(loc[p].ret)
              /\ loc[p].id > Largest(1, loc[p].latest.id - 30))
            => /\ loc'[p].pc = "B_enter"
               /\ loc'[p].arg = JNum(loc[p].id - 1)
               /\ loc'[p].results = loc[p].results
         /\ (Searched(p)' /\ \E k \in 1..Len(loc'[p].got) : NotFoundFailure(loc'[p].got[k]))
            => /\ loc'[p].ret = Ok(NoComic)
               /\ Len(loc'[p].got) = loc'[p].latest.id - Largest(1, loc'[p].latest.id - 30) + 1
               /\ loc'[p].sres.total = Len(MatchesOf(loc'[p].got, loc'[p].query))]_vars

\* a search has returned matches from below an id of its window that
\* upstream answered 404
C18_Witness ==
    \E p \in Procs :
        /\ Searched(p) /\ loc[p].ret.ok
        /\ \E k \in 1..Len(loc[p].got) :
              /\ NotFoundFailure(loc[p].got[k])
              /\ \E j \in (k + 1)..Len(loc[p].got) :
                    loc[p].got[j].ok /\ Matching(loc[p].got[j].val, loc[p].query)

-----------------------------------------------------------------------------
(* C19 *)

\* client p takes the step
Acts(p) == loc'[p] # loc[p]

\* client p is inside getById
InGetById(p) == loc[p].pc \in {"B_enter", "B_fetch", "B_json"}

\* C19: no step of getById, whatever its outcome, changes the penalty flag,
\* lets time pass or ends waiting for a timer; the flag changes only in a
\* step of getLatest (its lookup or the parsing of its response).
C19_ByIdLeavesPenalty ==
    [][/\ \A p \in Procs :
            (InGetById(p) /\ Acts(p))
            => /\ nextCachedPenalty' = nextCachedPenalty
               /\ now' = now
               /\ loc'[p].pc \notin {"L_penalty", "L_cold"}
               /\ loc'[p].timer = 0
       /\ (nextCachedPenalty' # nextCachedPenalty)
            => \E p \in Procs : Acts(p) /\ loc[p].pc \in {"L_enter", "L_json"}]_vars

\* a getById was served from the cache, and the flag is armed
C19_Witness ==
    \E p \in Procs :
        /\ loc[p].pc = "idle" /\ loc[p].op = "getById"
        /\ loc[p].ret.ok /\ loc[p].log = <<>>
        /\ nextCachedPenalty

-----------------------------------------------------------------------------
(* C20 *)

\* the step client p takes ends a getLatest or a getById in failure
FailsHere(p) ==
    /\ loc[p].pc \in {"L_fetch", "L_json", "B_fetch", "B_json"}
    /\ Acts(p)
    /\ loc'[p].pc \notin {"L_json", "B_json", "L_cold"}
    /\ ~loc'[p].ret.ok

\* the cache after the step is the cache before it with comic c stored
\* under key k at the time of the step
Stored(k, c) ==
    /\ DOMAIN cache' = DOMAIN cache \cup {k}
    /\ cache'[k].data = c /\ cache'[k].timestamp = now
    /\ \A x \in DOMAIN cache \ {k} : cache'[x] = cache[x]

\* C20: the step in which a getLatest or a getById fails, and every step
\* of the call before it (the lookup that misses, the fetch), leave the
\* cache and the penalty flag as they are; the cache changes only in the
\* step that parses the body of a successful fetch, by storing that comic
\* under the key of the call.
C20_FailureChangesNothing ==
    [][/\ \A p \in Procs :
            (\/ FailsHere(p)
             \/ Acts(p) /\ loc[p].pc \in {"L_fetch", "B_enter", "B_fetch"}
             \/ Acts(p) /\ loc[p].pc = "L_enter" /\ loc'[p].pc = "L_fetch")
            => (cache' = cache /\ nextCachedPenalty' = nextCachedPenalty)
       /\ (cache' # cache)
            => \E p \in Procs :
                 /\ Acts(p)
                 /\ \/ /\ loc[p].pc = "L_json" /\ loc'[p].pc = "L_cold"
                       /\ Stored(LatestKey, loc'[p].cached)
                    \/ /\ loc[p].pc = "B_json" /\ loc'[p].ret.ok
                       /\ Stored(ComicKey(intOf(loc[p].arg)), loc'[p].ret.val)]_vars

\* a getLatest has failed, and the entry that had expired before is still
\* in the cache, the flag still armed
C20_Witness ==
    \E p \in Procs :
        /\ loc[p].pc = "idle" /\ loc[p].op = "getLatest"
        /\ ~loc[p].ret.ok /\ loc[p].ret.msg # <<>>
        /\ LatestKey \in DOMAIN cache /\ ~cacheHit(LatestKey)
        /\ nextCachedPenalty

\* a getById has failed on upstream's 404 and nothing is in the cache
C20_WitnessNotFound ==
    \E p \in Procs :
        /\ loc[p].pc = "idle" /\ loc[p].op = "getById"
        /\ NotFoundFailure(loc[p].ret)
        /\ DOMAIN cache = {}

-----------------------------------------------------------------------------
(* C21 *)

\* the sum of the counts es holds under the endpoints of K
RECURSIVE SumOver(_, _)
SumOver(es, K) ==
    IF K = {} THEN 0
    ELSE LET k == CHOOSE x \in K : TRUE IN es[k] + SumOver(es, K \ {k})

\* the sum of all per-endpoint counts
SumOfCounts(es) == SumOver(es, DOMAIN es)

\* the count of endpoint k, none being 0
CountOf(es, k) == IF k \in DOMAIN es THEN es[k] ELSE 0

\* the step is the arrival of a request of client p at the stats middleware
\* (budget.calls counts the requests still to come)
Arrives(p) == loc[p].pc = "idle" /\ loc'[p].op # "none" /\ budget'.calls = budget.calls - 1

\* C21: totalRequests always is the sum of the per-endpoint counts (and so
\* it is in every body GET /api/stats answers); a request that reaches the
\* stats middleware adds 1 to totalRequests and 1 to the count of exactly
\* one endpoint, the other counts staying as they are; and no step makes
\* totalRequests or the count of an endpoint smaller.
C21_StatsCounters ==
    /\ [](/\ stats.totalRequests = SumOfCounts(stats.endpointStats)
          /\ \A p \in Procs :
                loc[p].body # NoBody
                => loc[p].body.totalRequests = SumOfCounts(loc[p].body.endpointStats))
    /\ [][/\ (\E p \in Procs : Arrives(p))
             => /\ stats'.totalRequests = stats.totalRequests + 1
                /\ \E k \in DOMAIN stats'.endpointStats :
                      /\ stats'.endpointStats[k] = CountOf(stats.endpointStats, k) + 1
                      /\ \A x \in DOMAIN stats'.endpointStats \ {k} :
                            /\ x \in DOMAIN stats.endpointStats
                            /\ stats'.endpointStats[x] = stats.endpointStats[x]
         /\ stats'.totalRequests >= stats.totalRequests
         /\ \A k \in DOMAIN stats.endpointStats :
               /\ k \in DOMAIN stats'.endpointStats
               /\ stats'.endpointStats[k] >= stats.endpointStats[k]
         /\ (stats' # stats) => \E p \in Procs : Arrives(p)]_vars

\* one endpoint has been asked for twice
C21_Witness ==
    /\ stats.totalRequests = 2
    /\ \E k \in DOMAIN stats.endpointStats : stats.endpointStats[k] = 2

\* two endpoints have been asked for, and GET /api/stats has answered both counts
C21_WitnessTwo ==
    /\ Cardinality(DOMAIN stats.endpointStats) = 2
    /\ \E p \in Procs : loc[p].body # NoBody /\ loc[p].body.totalRequests = 2

====
